---- MODULE Spec2Model ----
(***************************************************************************)
(* Voyager travel assistant (src/src/App.tsx): the conversation controller *)
(* handleSend, the three provider clients and the itinerary composer       *)
(* generateItinerary.                                                      *)
(*                                                                         *)
(* Text is a sequence of one-character strings ("3" is <<"3">>); a text a  *)
(* template literal builds is the concatenation of its fragments.  An      *)
(* optional value (Location | null, number | null, NaN) is the empty       *)
(* sequence when absent and a one-element sequence when present.           *)
(***************************************************************************)
EXTENDS Integers, Sequences, FiniteSets, TLC

(* ------------------------------ bounds -------------------------------- *)

\* Longest transcript the model lets a submission start from.
MaxMessages == 7

\* Longest list of features a places response carries in the controller model.
MaxFeatures == 2

\* Longest attraction / food list given to the composer on its own.
MaxLen == 4

\* Largest day count given to the composer on its own.
MaxDays == 3

(* ------------------------------- text --------------------------------- *)

Paris == <<"P", "a", "r", "i", "s">>

\* What the user can leave in the textarea.
Texts ==
  { <<" ">>, Paris, <<"a", "b", "c">>, <<"0">>, <<"-", "3">>, <<"3">>,
    <<" ", "2", "a", " ">> }

IsSpace(c) == c = " "

IsDigit(c) == c \in {"0", "1", "2", "3", "4", "5", "6", "7", "8", "9"}

DigitVal(c) ==
  CASE c = "0" -> 0 [] c = "1" -> 1 [] c = "2" -> 2 [] c = "3" -> 3
    [] c = "4" -> 4 [] c = "5" -> 5 [] c = "6" -> 6 [] c = "7" -> 7
    [] c = "8" -> 8 [] c = "9" -> 9

RECURSIVE TrimStart(_)
TrimStart(s) ==
  IF s # <<>> /\ IsSpace(Head(s)) THEN TrimStart(Tail(s)) ELSE s

RECURSIVE TrimEnd(_)
TrimEnd(s) ==
  IF s # <<>> /\ IsSpace(s[Len(s)]) THEN TrimEnd(SubSeq(s, 1, Len(s) - 1)) ELSE s

\* String.prototype.trim
Trim(s) == TrimEnd(TrimStart(s))

\* The value of the longest prefix of decimal digits of s, continuing from acc.
RECURSIVE DigitsValue(_, _)
DigitsValue(s, acc) ==
  IF s # <<>> /\ IsDigit(Head(s))
    THEN DigitsValue(Tail(s), acc * 10 + DigitVal(Head(s)))
    ELSE acc

NaN == <<>>

\* parseInt(s): leading white space skipped, an optional sign, then the longest
\* prefix of decimal digits; NaN when there is no digit.  (No text of Texts
\* has the 0x prefix parseInt reads as hexadecimal.)
ParseInt(s) ==
  LET t    == TrimStart(s)
      neg  == t # <<>> /\ Head(t) = "-"
      body == IF t # <<>> /\ Head(t) \in {"-", "+"} THEN Tail(t) ELSE t
  IN  IF body = <<>> \/ ~IsDigit(Head(body))
        THEN NaN
        ELSE << (IF neg THEN -1 ELSE 1) * DigitsValue(body, 0) >>

IsNaN(d) == d = NaN

IsValidDays_AcceptsZero(d) == ~(IsNaN(d) \/ d[1] < 0)

\* The negation of `isNaN(days) || days <= 0`.
IsValidDays(d) == ~(IsNaN(d) \/ d[1] <= 0)

ShouldIgnore_NoLoadingGuard(inp, loading) == Trim(inp) = <<>>

\* `!input.trim() || isLoading`: handleSend returns at once.
ShouldIgnore(inp, loading) == Trim(inp) = <<>> \/ loading

(* ------------------------------ places -------------------------------- *)

\* The features a places provider can return: a name (absent: "") and an id.
Catalogue ==
  << [name |-> "Louvre", place_id |-> "p1"],
     [name |-> "",       place_id |-> "p2"],
     [name |-> "Orsay",  place_id |-> "p3"],
     [name |-> "Bistro", place_id |-> "p4"] >>

\* The feature lists of a places response: the prefixes of the catalogue.
FeatureLists == { SubSeq(Catalogue, 1, n) : n \in 0..MaxFeatures }

\* A failed places call: fetch or response.json() throws, or data.features is
\* missing.
Failed == "failed"

PlacesOutcomes == { <<Failed, <<>> >> } \cup { <<"ok", fs>> : fs \in FeatureLists }

\* features.map(...): the name defaults to 'Unnamed Place'.  (categories,
\* formatted, lat and lon only feed the rendering and are left out.)
ToPlace(f) ==
  [name |-> IF f.name # "" THEN f.name ELSE "Unnamed Place", place_id |-> f.place_id]

\* fetchPlaces: the mapped features, or [] from the catch.
fetchPlaces(outcome) ==
  IF outcome[1] = Failed
    THEN <<>>
    ELSE [i \in 1..Len(outcome[2]) |-> ToPlace(outcome[2][i])]

(* ----------------------------- composer ------------------------------- *)

Min(a, b) == IF a < b THEN a ELSE b

\* Math.ceil(n / d) for n >= 0, d >= 1
CeilDiv(n, d) == (n + d - 1) \div d

\* Array.prototype.slice(from, to) on 0-based bounds: clipped, never raising.
Slice(s, from, to) ==
  IF from >= Len(s) THEN <<>> ELSE SubSeq(s, from + 1, Min(to, Len(s)))

\* xs[k]?.name || fallback, k 0-based
NameOr(xs, k, fallback) ==
  IF k < Len(xs) /\ xs[k + 1].name # "" THEN xs[k + 1].name ELSE fallback

MorningFallback == "Explore local neighborhood"

AfternoonFallback == "Relax at a nearby café or park"

LunchFallback == "Local street food"

DinnerFallback == "Try a local restaurant"

\* The source's literal starts with a space.
EveningFallback == " Take a walk or catch a local event"

\* The template literal of one day: five labelled lines in this order.
FormatDay(morning, lunch, afternoon, dinner, evening) ==
  << "Morning: Visit ", morning,
     "Lunch: Enjoy at ", lunch,
     "Afternoon: Head to ", afternoon,
     "Dinner: Dine at ", dinner,
     "Evening: Visit ", evening >>

PerDay(len, days) == Min(3, CeilDiv(len, days))

DayEntry_SwappedRoles(attractions, food, days, i) ==
  LET dayAttractions == Slice(attractions, i * PerDay(Len(attractions), days),
                              (i + 1) * PerDay(Len(attractions), days))
      dayFood == Slice(food, i * PerDay(Len(food), days),
                       (i + 1) * PerDay(Len(food), days))
  IN  FormatDay(NameOr(dayAttractions, 0, MorningFallback),
                NameOr(dayFood, 0, LunchFallback),
                NameOr(dayAttractions, 2, AfternoonFallback),
                NameOr(dayFood, 1, DinnerFallback),
                NameOr(dayAttractions, 1, EveningFallback))

\* The body of the loop for day index i (0-based).
DayEntry(attractions, food, days, i) ==
  LET dayAttractions == Slice(attractions, i * PerDay(Len(attractions), days),
                              (i + 1) * PerDay(Len(attractions), days))
      dayFood == Slice(food, i * PerDay(Len(food), days),
                       (i + 1) * PerDay(Len(food), days))
  IN  FormatDay(NameOr(dayAttractions, 0, MorningFallback),
                NameOr(dayFood, 0, LunchFallback),
                NameOr(dayAttractions, 1, AfternoonFallback),
                NameOr(dayFood, 1, DinnerFallback),
                NameOr(dayAttractions, 2, EveningFallback))

\* The loop `for (let i = from; i < days; i++) itinerary.push(...)`.
RECURSIVE ItineraryLoop(_, _, _, _, _)
ItineraryLoop(attractions, food, days, i, itinerary) ==
  IF i < days
    THEN ItineraryLoop(attractions, food, days, i + 1,
                       Append(itinerary, DayEntry(attractions, food, days, i)))
    ELSE itinerary

generateItinerary_StopsAtPlaces(attractions, food, days) ==
  ItineraryLoop(attractions, food, Min(days, Len(attractions)), 0, <<>>)

generateItinerary(attractions, food, days) ==
  ItineraryLoop(attractions, food, days, 0, <<>>)

(* ------------------------ geocoder and weather ------------------------- *)

\* The results of a geocoder response that has any, best match first.
Locations == << [lat |-> 48, lon |-> 2], [lat |-> 35, lon |-> 139] >>

NoLocation == <<>>

\* A geocoder response: the call fails, or data.results is one of these lists.
GeocodeOutcomes ==
  { <<Failed, <<>> >>, <<"ok", <<>> >>, <<"ok", Locations>> }

\* fetchLocationCoordinates: the first result's lat/lon, or null when there is
\* no result or the call fails.
fetchLocationCoordinates(outcome) ==
  IF outcome[1] # Failed /\ Len(outcome[2]) > 0
    THEN << [lat |-> outcome[2][1].lat, lon |-> outcome[2][1].lon] >>
    ELSE NoLocation

\* A weather response: the call fails, or one forecast day per requested day.
WeatherOutcomes(days) ==
  { <<Failed, <<>> >>,
    <<"ok", [d \in 1..days |-> [date |-> d, condition |-> "Sunny"]]>> }

\* fetchWeatherForecast: the mapped forecast days, or [] from the catch.
fetchWeatherForecast(outcome) ==
  IF outcome[1] = Failed THEN <<>> ELSE outcome[2]

(* ----------------------------- transcript ------------------------------ *)

\* A Message without the optional fields.
Message(text, isBot) ==
  [text |-> text, isBot |-> isBot, attractions |-> <<>>, food |-> <<>>,
   itinerary |-> <<>>, weather |-> <<>>]

Greeting ==
  Message(<<"Hello! I'm your travel assistant. Where would you like to go?">>, TRUE)

AskDaysMessage(inp) ==
  Message(<<"Great! How many days will you be staying in ">> \o inp \o <<"?">>, TRUE)

NotFoundMessage ==
  Message(<<"I couldn't find that location. Please try again with a different destination.">>,
          TRUE)

InvalidDaysMessage ==
  Message(<<"Please enter a valid number of days (e.g., 3, 5, 7).">>, TRUE)

FailureMessage ==
  Message(<<"Sorry, something went wrong. Try again later.">>, TRUE)

PlanMessage(dest, attractions, food, itinerary, weather) ==
  [text |-> <<"Here's your travel plan for ">> \o dest \o <<"!">>, isBot |-> TRUE,
   attractions |-> <<attractions>>, food |-> <<food>>,
   itinerary |-> <<itinerary>>, weather |-> <<weather>>]

(* ------------------------------- state -------------------------------- *)

VARIABLES
  messages,         \* useState<Message[]>
  input,            \* useState('')
  isLoading,        \* useState(false)
  currentLocation,  \* useState<Location | null>(null)
  allPlaces,        \* useState<Place[]>([])
  step,             \* useState<'destination' | 'days'>
  destination,      \* useState('')
  tripDays,         \* useState<number | null>(null)
  calls,            \* the handleSend invocations suspended at an await
  event,            \* the last thing that happened (history)
  cAttractions,     \* composer on its own: the arguments ...
  cFood,
  cDays,
  cResult           \* ... and the returned itinerary, once called

ctl == <<messages, input, isLoading, currentLocation, allPlaces, step,
         destination, tripDays, calls, event>>

cmp == <<cAttractions, cFood, cDays, cResult>>

vars == <<messages, input, isLoading, currentLocation, allPlaces, step,
          destination, tripDays, calls, event,
          cAttractions, cFood, cDays, cResult>>

CtlInit ==
  /\ messages = <<Greeting>>
  /\ input = <<>>
  /\ isLoading = FALSE
  /\ currentLocation = NoLocation
  /\ allPlaces = <<>>
  /\ step = "destination"
  /\ destination = <<>>
  /\ tripDays = <<>>
  /\ calls = <<>>
  /\ event = "init"

Init ==
  /\ CtlInit
  /\ cAttractions = <<>>
  /\ cFood = <<>>
  /\ cDays = 1
  /\ cResult = <<>>

Remove(s, i) == SubSeq(s, 1, i - 1) \o SubSeq(s, i + 1, Len(s))

Resolved_StaysLoading == TRUE

\* The argument of the setIsLoading that ends a submission.
Resolved == FALSE

StepAfterGeocode_AlwaysDays(location, st) == "days"

\* setStep('days') only when the geocoder found a location.
StepAfterGeocode(location, st) ==
  IF location # NoLocation THEN "days" ELSE st

LocationAfterGeocode_NotStored(location, cur) == cur

\* setCurrentLocation(location) only when the geocoder found a location.
LocationAfterGeocode(location, cur) ==
  IF location # NoLocation THEN location ELSE cur

StepAfterSynthesis_Stays == "days"

\* setStep('destination') after the plan message.
StepAfterSynthesis == "destination"

(* ------------------------------ actions ------------------------------- *)

\* onChange of the textarea, which is disabled while isLoading.
Type(t) ==
  /\ ~isLoading
  /\ input' = t
  /\ event' = "type"
  /\ UNCHANGED <<messages, isLoading, currentLocation, allPlaces, step,
                 destination, tripDays, calls>>
  /\ UNCHANGED cmp

\* handleSend up to its first await (or its return).
HandleSend ==
  /\ UNCHANGED cmp
  /\ IF ShouldIgnore(input, isLoading)
       THEN /\ event' = "ignored"
            /\ UNCHANGED <<messages, input, isLoading, currentLocation, allPlaces,
                           step, destination, tripDays, calls>>
       ELSE /\ Len(messages) + 2 <= MaxMessages
            /\ LET userMessage == Message(input, FALSE)
                   days == ParseInt(Trim(input))
                   call == [pc |-> "", input |-> input, location |-> currentLocation,
                            destination |-> destination, days |-> 0,
                            attractions |-> <<>>, food |-> <<>>, itinerary |-> <<>>]
               IN  IF step = "destination"
                     THEN /\ isLoading' = TRUE
                          /\ messages' = Append(messages, userMessage)
                          /\ calls' = Append(calls, [call EXCEPT !.pc = "geocode"])
                          /\ event' = "sent"
                          /\ UNCHANGED <<input, currentLocation, allPlaces, step,
                                         destination, tripDays>>
                     ELSE IF ~IsValidDays(days)
                       THEN /\ messages' = messages \o <<userMessage, InvalidDaysMessage>>
                            /\ input' = <<>>
                            /\ isLoading' = Resolved
                            /\ event' = "invalid"
                            /\ UNCHANGED <<currentLocation, allPlaces, step,
                                           destination, tripDays, calls>>
                       ELSE /\ isLoading' = TRUE
                            /\ messages' = Append(messages, userMessage)
                            /\ tripDays' = days
                            /\ input' = <<>>
                            /\ calls' = Append(calls, [call EXCEPT !.pc = "places",
                                                                   !.days = days[1]])
                            /\ event' = "sent"
                            /\ UNCHANGED <<currentLocation, allPlaces, step, destination>>

\* The geocoder's answer arrives: the rest of the destination branch.
FetchLocationReturn(i, outcome) ==
  /\ calls[i].pc = "geocode"
  /\ LET c == calls[i]
         location == fetchLocationCoordinates(outcome)
     IN  /\ IF location # NoLocation
              THEN /\ destination' = c.input
                   /\ messages' = Append(messages, AskDaysMessage(c.input))
                   /\ event' = "located"
              ELSE /\ messages' = Append(messages, NotFoundMessage)
                   /\ event' = "notFound"
                   /\ UNCHANGED destination
         /\ currentLocation' = LocationAfterGeocode(location, currentLocation)
         /\ step' = StepAfterGeocode(location, step)
         /\ input' = <<>>
         /\ isLoading' = Resolved
         /\ calls' = Remove(calls, i)
  /\ UNCHANGED <<allPlaces, tripDays>>
  /\ UNCHANGED cmp

\* One of the two fetchPlaces of the Promise.all settles; when it is the second,
\* the composer runs, allPlaces is set and the weather call is issued.
FetchPlacesReturn(i, which, outcome) ==
  /\ calls[i].pc = "places"
  /\ LET c == calls[i]
         result == fetchPlaces(outcome)
         attractions == IF which = "attractions" THEN <<result>> ELSE c.attractions
         food == IF which = "food" THEN <<result>> ELSE c.food
     IN  /\ (IF which = "attractions" THEN c.attractions ELSE c.food) = <<>>
         /\ IF attractions # <<>> /\ food # <<>>
              THEN /\ calls' = [calls EXCEPT ![i] =
                          [c EXCEPT !.pc = "weather",
                                    !.attractions = attractions,
                                    !.food = food,
                                    !.itinerary =
                                       generateItinerary(attractions[1], food[1], c.days)]]
                   /\ allPlaces' = attractions[1] \o food[1]
              ELSE /\ calls' = [calls EXCEPT ![i] =
                          [c EXCEPT !.attractions = attractions, !.food = food]]
                   /\ UNCHANGED allPlaces
  /\ event' = "places"
  /\ UNCHANGED <<messages, input, isLoading, currentLocation, step, destination,
                 tripDays>>
  /\ UNCHANGED cmp

\* The forecast arrives: the plan message, and the reset of the step.
FetchWeatherReturn(i, outcome) ==
  /\ calls[i].pc = "weather"
  /\ LET c == calls[i]
         weather == fetchWeatherForecast(outcome)
     IN  messages' = Append(messages,
                       PlanMessage(c.destination, c.attractions[1], c.food[1],
                                   c.itinerary, weather))
  /\ step' = StepAfterSynthesis
  /\ isLoading' = Resolved
  /\ calls' = Remove(calls, i)
  /\ event' = "planned"
  /\ UNCHANGED <<input, currentLocation, allPlaces, destination, tripDays>>
  /\ UNCHANGED cmp

\* An exception is raised inside the try block of the days branch, past the
\* clients' own catches (in the composer, or reading location.lat): the catch
\* appends the failure message and the function falls through to its end.
CatchError(i) ==
  /\ calls[i].pc \in {"places", "weather"}
  /\ messages' = Append(messages, FailureMessage)
  /\ isLoading' = Resolved
  /\ calls' = Remove(calls, i)
  /\ event' = "failed"
  /\ UNCHANGED <<input, currentLocation, allPlaces, step, destination, tripDays>>
  /\ UNCHANGED cmp

GeocodeResponse ==
  \E i \in 1..Len(calls), o \in GeocodeOutcomes : FetchLocationReturn(i, o)

PlacesResponse ==
  \E i \in 1..Len(calls), w \in {"attractions", "food"}, o \in PlacesOutcomes :
    FetchPlacesReturn(i, w, o)

WeatherResponse ==
  \E i \in 1..Len(calls) :
    \E o \in WeatherOutcomes(calls[i].days) : FetchWeatherReturn(i, o)

Throw == \E i \in 1..Len(calls) : CatchError(i)

Edit == \E t \in Texts : Type(t)

Next ==
  \/ Edit
  \/ HandleSend
  \/ GeocodeResponse
  \/ PlacesResponse
  \/ WeatherResponse
  \/ Throw

Spec == Init /\ [][Next]_vars

\* A provider call that is outstanding is eventually answered.
Respond == GeocodeResponse \/ PlacesResponse \/ WeatherResponse

\* Every outbound call eventually returns or fails.
LiveSpec == Init /\ [][Next]_vars /\ WF_vars(Respond)

(* ------------------------ the composer on its own ---------------------- *)

SeqsUpTo(S, n) == UNION { [1..k -> S] : k \in 0..n }

\* Places as fetchPlaces returns them.
PlacePool == { ToPlace(Catalogue[1]), ToPlace(Catalogue[2]) }

ComposeInit ==
  /\ CtlInit
  /\ cAttractions \in SeqsUpTo(PlacePool, MaxLen)
  /\ cFood \in SeqsUpTo(PlacePool, MaxLen)
  /\ cDays \in 1..MaxDays
  /\ cResult = <<>>

Compose ==
  /\ cResult = <<>>
  /\ cResult' = <<generateItinerary(cAttractions, cFood, cDays)>>
  /\ UNCHANGED <<cAttractions, cFood, cDays>>
  /\ UNCHANGED ctl

ComposeNext == Compose

ComposeSpec == ComposeInit /\ [][ComposeNext]_vars

(* ------------------------------ claims -------------------------------- *)

Last(s) == s[Len(s)]

IsAskDays(m) ==
  m.isBot /\ Head(m.text) = "Great! How many days will you be staying in "

IsPlan(m) == Len(m.itinerary) > 0

\* The steps of handleSend up to its first await.
SubmitEvents == {"ignored", "sent", "invalid"}

\* The steps that end a submission.
ResolveEvents == {"invalid", "located", "notFound", "planned", "failed"}

\* C1 as stated: the stored location is set if and only if the step is 'days'.
C1_LocationIffDays == (currentLocation # NoLocation) <=> (step = "days")

\* C1 as amended: the stored location is set whenever the step is 'days', and it
\* is set exactly when some destination has been geocoded so far; nothing clears
\* it, so it stays set once the step is back at 'destination'.
C1_LocationSetInDays ==
  /\ step = "days" => currentLocation # NoLocation
  /\ currentLocation # NoLocation
       <=> \E i \in 1..Len(messages) : IsAskDays(messages[i])

C1_Witness ==
  event = "planned" /\ step = "destination" /\ currentLocation # NoLocation

\* C2: when an exception is caught in the days branch, the failure message is
\* appended and the step is back at 'destination' once the submission resolves.
C2_FailureResetsStep ==
  event = "failed"
    => /\ Last(messages) = FailureMessage
       /\ ~isLoading
       /\ step = "destination"

\* C3: at most one handleSend is suspended at a time, and a submission attempt
\* made while isLoading changes nothing: no message, no call, no step or
\* location change.
C3_SingleInFlight ==
  /\ [](Len(calls) <= 1 /\ (isLoading <=> Len(calls) = 1))
  /\ [][ (isLoading /\ event' \in SubmitEvents)
           => /\ event' = "ignored"
              /\ UNCHANGED <<messages, input, isLoading, currentLocation, allPlaces,
                             step, destination, tripDays, calls>> ]_vars

C3_Witness == isLoading /\ event = "ignored" /\ Trim(input) # <<>>

\* An optional sign followed by a digit: what a number starts with.
StartsNumber(t) ==
  LET body == IF t # <<>> /\ Head(t) \in {"-", "+"} THEN Tail(t) ELSE t
  IN  body # <<>> /\ IsDigit(Head(body))

AllZeros(t) == t # <<>> /\ \A k \in 1..Len(t) : t[k] = "0"

\* The text is a zero ("0"), a negative number ("-3") or not a number ("abc").
RejectedDayText(t) ==
  LET u == Trim(t)
  IN  \/ ~StartsNumber(u)
      \/ Head(u) = "-"
      \/ AllZeros(u)

C5_EverySubmissionResolves ==
  /\ [](event \in ResolveEvents => ~isLoading /\ calls = <<>>)
  /\ (isLoading ~> (~isLoading /\ calls = <<>>))
  /\ []((~isLoading /\ Trim(input) # <<>> /\ Len(messages) + 2 <= MaxMessages)
          => ENABLED (HandleSend /\ event' # "ignored"))

C5_Witness == event = "failed" /\ ~isLoading /\ calls = <<>> /\ Len(messages) = 5

\* C6: the step that ends a successful cycle puts the step back at 'destination'
\* and appends one bot message; that message answers the user's day count N and
\* its itinerary has N entries.
C6_CycleEndsWithPlan ==
  /\ [](\A i \in 1..Len(messages) :
          IsPlan(messages[i])
            => /\ i > 1
               /\ ~messages[i - 1].isBot
               /\ messages[i].isBot
               /\ Len(messages[i].itinerary[1]) = ParseInt(messages[i - 1].text)[1])
  /\ [][ event' = "planned"
           => /\ step' = "destination"
              /\ ~Last(messages).isBot
              /\ Len(messages') = Len(messages) + 1
              /\ SubSeq(messages', 1, Len(messages)) = messages
              /\ IsPlan(Last(messages')) ]_vars

C6_Witness ==
  /\ event = "planned"
  /\ step = "destination"
  /\ Len(messages) = 5
  /\ messages[2].text = Paris
  /\ messages[4].text = <<"3">>
  /\ Len(messages[5].itinerary[1]) = 3

\* C7: in step 'destination', when the geocoder returns a location the step
\* becomes 'days', and when it returns none the step, destination and location
\* stay; either way exactly one bot message follows the user's message.
C7_DestinationBranch ==
  [][ (event' \in {"located", "notFound"})
        => /\ step = "destination"
           /\ ~Last(messages).isBot
           /\ Len(messages') = Len(messages) + 1
           /\ SubSeq(messages', 1, Len(messages)) = messages
           /\ Last(messages').isBot
           /\ event' = "located" => step' = "days"
           /\ event' = "notFound"
                => step' = "destination" /\ UNCHANGED <<destination, currentLocation>> ]_vars

C7_Witness ==
  event = "notFound" /\ step = "destination" /\ Len(messages) = 7
    /\ IsAskDays(messages[3]) /\ currentLocation # NoLocation

\* C8: generateItinerary returns exactly `days` entries, and entry i is the one
\* of day i: its morning and lunch come from the i-th slices.
C8_OneEntryPerDay ==
  cResult # <<>>
    => LET out == cResult[1]
           pa == PerDay(Len(cAttractions), cDays)
           pf == PerDay(Len(cFood), cDays)
       IN  /\ Len(out) = cDays
           /\ \A i \in 1..Len(out) :
                /\ out[i][2] = IF (i - 1) * pa + 1 <= Len(cAttractions)
                                 THEN cAttractions[(i - 1) * pa + 1].name
                                 ELSE MorningFallback
                /\ out[i][4] = IF (i - 1) * pf + 1 <= Len(cFood)
                                 THEN cFood[(i - 1) * pf + 1].name
                                 ELSE LunchFallback

C8_Witness ==
  cResult # <<>> /\ cDays = 3 /\ Len(cAttractions) = 1 /\ Len(cFood) = 4
    /\ Len(cResult[1]) = 3

Fallbacks ==
  {MorningFallback, AfternoonFallback, LunchFallback, DinnerFallback, EveningFallback}

\* C9: for one day, three or more attractions and two or more food places, the
\* entry is A[0] morning, F[0] lunch, A[1] afternoon, F[1] dinner, A[2] evening,
\* with no fallback text.
C9_OneDayRoles ==
  (cResult # <<>> /\ cDays = 1 /\ Len(cAttractions) >= 3 /\ Len(cFood) >= 2)
    => /\ cResult[1] = << FormatDay(cAttractions[1].name, cFood[1].name,
                                    cAttractions[2].name, cFood[2].name,
                                    cAttractions[3].name) >>
       /\ \A k \in {2, 4, 6, 8, 10} : cResult[1][1][k] \notin Fallbacks

C9_Witness ==
  cResult # <<>> /\ cDays = 1 /\ Len(cAttractions) = 4 /\ Len(cFood) = 2
    /\ cAttractions[2] # cAttractions[3]

\* The all-fallback day as the claim spells it.
ClaimedFallbackDay ==
  FormatDay("Explore local neighborhood", "Local street food",
            "Relax at a nearby café or park", "Try a local restaurant",
            "Take a walk or catch a local event")

\* C10: when both places calls fail, the submission ends with the plan message
\* (not the failure message), and each of its N entries is the five fallback
\* strings.
C10_AllFallbackPlan ==
  \A i \in 1..Len(messages) :
    (IsPlan(messages[i]) /\ messages[i].attractions[1] = <<>>
       /\ messages[i].food[1] = <<>>)
      => /\ Len(messages[i].itinerary[1]) = ParseInt(messages[i - 1].text)[1]
         /\ \A d \in 1..Len(messages[i].itinerary[1]) :
              messages[i].itinerary[1][d] = ClaimedFallbackDay

====
